---- MODULE Spec2Model ----
(***************************************************************************)
(* Model of isyntax_deidentifier: the delimiter scanner                    *)
(* (find_isyntax_header), the header transform                             *)
(* (deidentify_isyntax_header), the orchestrator and reassembler           *)
(* (deidentify_isyntax) and the command line driver (main).                *)
(*                                                                         *)
(* A byte string is a sequence of units.  The units that the scanner looks *)
(* at (">", CR, LF, EOT) are single bytes; a unit of markup (a tag name,   *)
(* an attribute with its value, a character of text) stands for the run of *)
(* bytes of that lexeme, so lengths are counted in units.                  *)
(***************************************************************************)
EXTENDS Integers, Sequences, FiniteSets, TLC

\* ------------------------------------------------------------------ bounds
MaxRaw == 4
MaxTail == 1
MaxEntries == 2
MaxDev == 2
MaxGt == 10
SmallChunk == 7

\* ------------------------------------------------------------ byte strings
CR == "CR"
LF == "LF"
EOT == "EOT"
GT == ">"

Min(a, b) == IF a < b THEN a ELSE b

\* b[lo:hi] of Python for 0 <= lo, 0 <= hi (hi is clamped to len(b))
Slice(b, lo, hi) == SubSeq(b, lo + 1, Min(hi, Len(b)))

\* b.find(x, start): the least 0-based index >= start holding x, or -1
Find(b, x, start) ==
    LET hits == {i \in start..(Len(b) - 1) : b[i + 1] = x}
    IN IF hits = {} THEN -1 ELSE CHOOSE i \in hits : \A j \in hits : i <= j

\* b.rfind(x, 0, end): the greatest 0-based index < end holding x, or -1
RFind(b, x, end) ==
    LET hits == {i \in 0..(Min(end, Len(b)) - 1) : b[i + 1] = x}
    IN IF hits = {} THEN -1 ELSE CHOOSE i \in hits : \A j \in hits : i >= j

RECURSIVE Flatten(_)
Flatten(chunks) ==
    IF chunks = <<>> THEN <<>> ELSE Head(chunks) \o Flatten(Tail(chunks))

RECURSIVE Repeat(_, _)
Repeat(x, n) == IF n <= 0 THEN <<>> ELSE <<x>> \o Repeat(x, n - 1)

\* ------------------------------------------------------------------ errors
NoError == [kind |-> "none", msg |-> "", count |-> 0]
Error(kind, msg, count) == [kind |-> kind, msg |-> msg, count |-> count]

\* --------------------------------------------------- the metadata document
\* An element as lxml holds it: its tag, its attributes in document order,
\* the text before its first child, its children, and the text that follows
\* its end tag (its tail).
Node(name, attrs, text, kids, tail) ==
    [name |-> name, attrs |-> attrs, text |-> text, kids |-> kids, tail |-> tail]

TagNames == {"DataObject", "Attribute", "Array"}

ObjectTypeAttrs == {"ObjectType=DPUfsImport", "ObjectType=DPScannedImage",
                    "ObjectType=dpufsimport", "ObjectType=dpscannedimage"}
NameAttrs == {"Name=PIM_DP_UFS_BARCODE", "Name=PIM_DP_SCANNED_IMAGES",
              "Name=PIM_DP_IMAGE_TYPE", "Name=pim_dp_ufs_barcode",
              "Name=pim_dp_scanned_images", "Name=pim_dp_image_type"}
GroupAttrs == {"Group=0x301D", "Group=0x301d", "Group=0X301D"}
ElementAttrs == {"Element=0x1002", "Element=0x1003", "Element=0x1004",
                 "Element=0X1002", "Element=0X1003", "Element=0X1004"}
PMSVRAttrs == {"PMSVR=IString", "PMSVR=IDataObjectArray",
               "PMSVR=istring", "PMSVR=idataobjectarray"}
AttrUnits == ObjectTypeAttrs \cup NameAttrs \cup GroupAttrs \cup ElementAttrs
             \cup PMSVRAttrs
AttrKey(u) ==
    IF u \in ObjectTypeAttrs THEN "ObjectType"
    ELSE IF u \in NameAttrs THEN "Name"
    ELSE IF u \in GroupAttrs THEN "Group"
    ELSE IF u \in ElementAttrs THEN "Element"
    ELSE "PMSVR"

DeclAttrs == {"version=1.0", "encoding=UTF-8"}
WhiteSpace == {LF, CR, "sp"}
LABELIMAGE == "LABELIMAGE"

\* ------------------------------------------------------------ etree.parse
ParseFail == [ok |-> FALSE]

\* the first index >= i of s that holds no unit of `units`
RECURSIVE SkipUnits(_, _, _)
SkipUnits(s, i, units) ==
    IF i <= Len(s) /\ s[i] \in units THEN SkipUnits(s, i + 1, units) ELSE i

At(s, i, x) == i <= Len(s) /\ s[i] = x

\* a character of text goes to the element's text until it has a child, and
\* to the tail of its last child afterwards
AddChar(text, kids, c) ==
    IF kids = <<>> THEN [text |-> Append(text, c), kids |-> kids]
    ELSE [text |-> text,
          kids |-> [kids EXCEPT ![Len(kids)].tail = Append(@, c)]]

RECURSIVE ParseElement(_, _), ParseContent(_, _, _, _)
ParsedNode(node, next) == [ok |-> TRUE, node |-> node, next |-> next]

\* the end tag of the element `name` is due at s[i], after content c
ParseEndTag(s, name, attrs, c) ==
    IF ~c.ok THEN ParseFail
    ELSE IF At(s, c.next, "<") /\ At(s, c.next + 1, "/") /\ At(s, c.next + 2, name)
            /\ At(s, SkipUnits(s, c.next + 3, {"sp"}), GT)
    THEN ParsedNode(Node(name, attrs, c.text, c.kids, <<>>),
                    SkipUnits(s, c.next + 3, {"sp"}) + 1)
    ELSE ParseFail

\* the start tag `name attrs` ends at s[k]
ParseTagEnd(s, name, attrs, k) ==
    IF \E a, b \in DOMAIN attrs : a # b /\ AttrKey(attrs[a]) = AttrKey(attrs[b])
    THEN ParseFail
    ELSE IF At(s, k, "/") /\ At(s, k + 1, GT)
    THEN ParsedNode(Node(name, attrs, <<>>, <<>>, <<>>), k + 2)
    ELSE IF At(s, k, GT)
    THEN ParseEndTag(s, name, attrs, ParseContent(s, k + 1, <<>>, <<>>))
    ELSE ParseFail

\* the attributes of the start tag are s[i..j-1]
ParseAttrs(s, i, j) ==
    ParseTagEnd(s, s[i - 1], SubSeq(s, i, j - 1), IF At(s, j, "sp") THEN j + 1 ELSE j)

\* an element starting at s[i] = "<": [ok, node, next]
ParseElement(s, i) ==
    IF ~(At(s, i, "<") /\ i + 1 <= Len(s) /\ s[i + 1] \in TagNames)
    THEN ParseFail
    ELSE ParseAttrs(s, i + 2, SkipUnits(s, i + 2, AttrUnits))

\* a child element e was read inside the content
ParseChild(s, text, kids, e) ==
    IF ~e.ok THEN ParseFail
    ELSE ParseContent(s, e.next, text, Append(kids, e.node))

\* the character c was read, the content goes on at s[i]
ParseChar(s, i, a) == ParseContent(s, i, a.text, a.kids)

\* the content of an element from s[i] up to its end tag: [ok, text, kids, next]
ParseContent(s, i, text, kids) ==
    IF i > Len(s) THEN ParseFail
    ELSE IF s[i] = "<"
    THEN IF At(s, i + 1, "/")
         THEN [ok |-> TRUE, text |-> text, kids |-> kids, next |-> i]
         ELSE ParseChild(s, text, kids, ParseElement(s, i))
    ELSE IF s[i] = "&"
    THEN IF At(s, i + 1, "g") /\ At(s, i + 2, "t") /\ At(s, i + 3, ";")
         THEN ParseChar(s, i + 4, AddChar(text, kids, GT))
         ELSE ParseFail
    ELSE IF s[i] = EOT THEN ParseFail
    ELSE IF s[i] = CR
    THEN \* end-of-line handling: CR LF and a lone CR are read as LF
         ParseChar(s, IF At(s, i + 1, LF) THEN i + 2 ELSE i + 1,
                   AddChar(text, kids, LF))
    ELSE ParseChar(s, i + 1, AddChar(text, kids, s[i]))

\* the document element e was read: only white space may follow
ParseRoot(s, e) ==
    IF ~e.ok THEN ParseFail
    ELSE IF SkipUnits(s, e.next, WhiteSpace) # Len(s) + 1 THEN ParseFail
    ELSE [ok |-> TRUE, root |-> e.node]

\* the XML declaration, when there is one, ends before s[d + 2]
ParseProlog(s, decl, d) ==
    IF decl /\ ~(At(s, 3, "xml") /\ At(s, 4, "version=1.0")
                 /\ At(s, d, "?") /\ At(s, d + 1, GT))
    THEN ParseFail
    ELSE ParseRoot(s, ParseElement(s, SkipUnits(s, IF decl THEN d + 2 ELSE 1,
                                                WhiteSpace)))

\* etree.parse(BytesIO(header)).getroot(): [ok, root]
Parse(s) == ParseProlog(s, At(s, 1, "<") /\ At(s, 2, "?"), SkipUnits(s, 4, DeclAttrs))

\* ---------------------------------------------------------- etree.tostring
RECURSIVE Escape(_)
Escape(text) ==
    IF text = <<>> THEN <<>>
    ELSE (IF Head(text) = GT THEN <<"&", "g", "t", ";">> ELSE <<Head(text)>>)
         \o Escape(Tail(text))

RECURSIVE Serialize(_), SerializeAll(_)
Serialize(n) ==
    (IF n.text = <<>> /\ n.kids = <<>>
     THEN <<"<", n.name>> \o n.attrs \o <<"/", GT>>
     ELSE <<"<", n.name>> \o n.attrs \o <<GT>> \o Escape(n.text)
          \o SerializeAll(n.kids) \o <<"<", "/", n.name, GT>>)
    \o Escape(n.tail)
SerializeAll(kids) ==
    IF kids = <<>> THEN <<>> ELSE Serialize(Head(kids)) \o SerializeAll(Tail(kids))

\* ------------------------------------------------------------------- XPath
HasAttr(n, u) == \E i \in DOMAIN n.attrs : n.attrs[i] = u

\* only the upper-case form of the group accepted
GroupMatches_UpperOnly(n) == HasAttr(n, "Group=0x301D")

\* [@Group='0x301D' or @Group='0x301d']
GroupMatches(n) == HasAttr(n, "Group=0x301D") \/ HasAttr(n, "Group=0x301d")

\* the string-value of an element: all the text below it, in document order
RECURSIVE StringValue(_), StringValues(_)
StringValue(n) == n.text \o StringValues(n.kids)
StringValues(kids) ==
    IF kids = <<>> THEN <<>>
    ELSE StringValue(Head(kids)) \o Head(kids).tail \o StringValues(Tail(kids))

\* a set of integers as a sequence in increasing order
RECURSIVE Ascending(_)
Ascending(S) ==
    IF S = {} THEN <<>>
    ELSE LET m == CHOOSE x \in S : \A y \in S : x <= y
         IN <<m>> \o Ascending(S \ {m})

\* the indices of seq, in document order, whose element satisfies Test
SelectIdx(seq, Test(_)) == Ascending({i \in DOMAIN seq : Test(seq[i])})

IsBarcode(n) ==
    /\ n.name = "Attribute"
    /\ HasAttr(n, "Name=PIM_DP_UFS_BARCODE")
    /\ GroupMatches(n)
    /\ HasAttr(n, "Element=0x1002")
    /\ HasAttr(n, "PMSVR=IString")

IsImagesAttribute(n) ==
    /\ n.name = "Attribute"
    /\ HasAttr(n, "Name=PIM_DP_SCANNED_IMAGES")
    /\ GroupMatches(n)
    /\ HasAttr(n, "Element=0x1003")
    /\ HasAttr(n, "PMSVR=IDataObjectArray")

IsArray(n) == n.name = "Array"

IsLabelType(n) ==
    /\ n.name = "Attribute"
    /\ HasAttr(n, "Name=PIM_DP_IMAGE_TYPE")
    /\ GroupMatches(n)
    /\ HasAttr(n, "Element=0x1004")
    /\ HasAttr(n, "PMSVR=IString")
    /\ StringValue(n) = <<LABELIMAGE>>

IsLabel(n) ==
    /\ n.name = "DataObject"
    /\ HasAttr(n, "ObjectType=DPScannedImage")
    /\ \E i \in DOMAIN n.kids : IsLabelType(n.kids[i])

\* header_root.xpath("./Attribute[...BARCODE...]"): indices of the root's children
BarcodeQuery(root) == SelectIdx(root.kids, IsBarcode)

\* header_root.xpath("./Attribute[...IMAGES...]/Array"): <<i, j>> with
\* root.kids[i] an images container and root.kids[i].kids[j] an Array
RECURSIVE ArraysOf(_, _, _)
ArraysOf(root, conts, c) ==
    IF c > Len(conts) THEN <<>>
    ELSE LET i == conts[c]
             arrs == SelectIdx(root.kids[i].kids, IsArray)
         IN [a \in DOMAIN arrs |-> <<i, arrs[a]>>] \o ArraysOf(root, conts, c + 1)
ImagesQuery(root) ==
    ArraysOf(root, SelectIdx(root.kids, IsImagesAttribute), 1)

\* images.xpath("./DataObject[...]/Attribute[...][.='LABELIMAGE']/.."):
\* indices of the array's children
LabelQuery(images) == SelectIdx(images.kids, IsLabel)

\* seq without its i-th element
RemoveAt(seq, i) == SubSeq(seq, 1, i - 1) \o SubSeq(seq, i + 1, Len(seq))

\* ------------------------------------------------ deidentify_isyntax_header
xml_declaration == <<"<", "?", "xml", "version=1.0", "encoding=UTF-8", "?", GT, LF>>


\* the padding computed one byte short
PaddingLen_OneShort(header, header_deid) == Len(header) - Len(header_deid) - 1

\* padding_len = len(header) - len(header_deid)
PaddingLen(header, header_deid) == Len(header) - Len(header_deid)


\* the barcode element removed instead of emptied
ClearBarcode_Removes(root, b) == [root EXCEPT !.kids = RemoveAt(@, b)]

\* barcode.text = None
ClearBarcode(root, b) == [root EXCEPT !.kids[b].text = <<>>]


\* the first entry of the array removed, whichever the label is
RemoveLabel_First(root, img, l) ==
    [root EXCEPT !.kids[img[1]].kids[img[2]].kids = RemoveAt(@, 1)]

\* the label entry left in the array
RemoveLabel_Keeps(root, img, l) == root

\* images.remove(label): the element goes with its tail
RemoveLabel(root, img, l) ==
    [root EXCEPT !.kids[img[1]].kids[img[2]].kids = RemoveAt(@, l)]

Raised(e) == [err |-> e, header_deid |-> <<>>]


\* a document too long cut to the length of the header instead of refused
PadHeader_Truncates(header, header_root, header_deid) ==
    [err |-> NoError,
     header_deid |-> SubSeq(header_deid, 1, Min(Len(header), Len(header_deid)))
                     \o Repeat(LF, PaddingLen(header, header_deid)),
     header_root |-> header_root]

\* lines 61-77: serialize, check the size, pad
PadHeader(header, header_root, header_deid) ==
    IF PaddingLen(header, header_deid) < 0
    THEN Raised(Error("FormatError",
                      "Deidentified header size must be lower than equal to the original header size",
                      0))
    ELSE [err |-> NoError,
          header_deid |-> header_deid \o Repeat(LF, PaddingLen(header, header_deid)),
          header_root |-> header_root]
SerializeHeader(header, header_root) ==
    PadHeader(header, header_root, xml_declaration \o Serialize(header_root))


\* several labels accepted, the first of them removed
MatchLabel_TakesFirst(header, header_root, images, labels) ==
    IF Len(labels) = 0
    THEN Raised(Error("LabelError", "Label not found", 0))
    ELSE SerializeHeader(header, RemoveLabel(header_root, images, labels[1]))

\* lines 48-59: the label query on the array images, and the removal
MatchLabel(header, header_root, images, labels) ==
    IF Len(labels) = 0
    THEN Raised(Error("LabelError", "Label not found", 0))
    ELSE IF Len(labels) > 1
    THEN Raised(Error("LabelError", "Single label expected, n found", Len(labels)))
    ELSE SerializeHeader(header, RemoveLabel(header_root, images, labels[1]))

\* lines 37-47: the images query
MatchImages(header, header_root, arrays) ==
    IF Len(arrays) = 0
    THEN Raised(Error("ImagesError", "Images not found", 0))
    ELSE IF Len(arrays) > 1
    THEN Raised(Error("ImagesError", "Single images element expected, n found",
                      Len(arrays)))
    ELSE MatchLabel(header, header_root, arrays[1],
                    LabelQuery(header_root.kids[arrays[1][1]].kids[arrays[1][2]]))

\* line 35, then the images query on the tree so changed
AfterBarcode(header, header_root) ==
    MatchImages(header, header_root, ImagesQuery(header_root))

\* lines 24-35: the barcode query, and the clearing
MatchBarcode(header, header_root, barcodes) ==
    IF Len(barcodes) = 0
    THEN Raised(Error("BarcodeError", "Barcode not found", 0))
    ELSE IF Len(barcodes) > 1
    THEN Raised(Error("BarcodeError", "Single barcode element expected, n found",
                      Len(barcodes)))
    ELSE AfterBarcode(header, ClearBarcode(header_root, barcodes[1]))

\* lines 18-22: the root element
CheckRoot(header, header_root) ==
    IF header_root.name # "DataObject"
       \/ ~HasAttr(header_root, "ObjectType=DPUfsImport")
    THEN Raised(Error("FormatError", "Invalid header root element", 0))
    ELSE MatchBarcode(header, header_root, BarcodeQuery(header_root))

\* lines 11-16: the parse
CheckParsed(header, parsed) ==
    IF ~parsed.ok
    THEN Raised(Error("FormatError", "Error decoding header", 0))
    ELSE CheckRoot(header, parsed.root)

\* [err, header_deid, header_root]: the error raised (NoError: none), the
\* bytes returned, and header_root as it is when the function returns
deidentify_isyntax_header(header) == CheckParsed(header, Parse(header))


\* only the LF before 0x04 looked at
HeaderDelimiterOk_LFOnly(b, header_delimiter_end) ==
    /\ header_delimiter_end >= 1
    /\ Slice(b, header_delimiter_end - 1, header_delimiter_end) = <<LF>>

\* ------------------------------------------------------ find_isyntax_header
\* buff[header_delimiter_start:header_delimiter_end] == b"\r\n", after
\* header_delimiter_end >= 2
HeaderDelimiterOk(b, header_delimiter_end) ==
    /\ header_delimiter_end >= 2
    /\ Slice(b, header_delimiter_end - 2, header_delimiter_end) = <<CR, LF>>

\* the first '>' taken instead of the last
HeaderSize_FirstGt(b, header_delimiter_start) ==
    IF Find(b, GT, 0) < header_delimiter_start THEN Find(b, GT, 0) + 1 ELSE 0

\* buff.rfind(b">", 0, header_delimiter_start) + 1
HeaderSize(b, header_delimiter_start) == RFind(b, GT, header_delimiter_start) + 1


\* the search starting one byte into the new chunk
SearchStart_OneLate(b, chunk) == Len(b) - Len(chunk) + 1

\* where the search for 0x04 starts after chunk was appended to give b
SearchStart(b, chunk) == Len(b) - Len(chunk)

\* the length of the latest chunk taken, not of the first
NominalChunkSize_Latest(cs, chunk) == Len(chunk)

\* chunk_size = chunk_size or len(chunk)
NominalChunkSize(cs, chunk) == IF cs = 0 THEN Len(chunk) ELSE cs

\* lines 94-104: what follows the loop, [err, header_size]
CheckDelimiter(b, header_delimiter_end) ==
    IF ~HeaderDelimiterOk(b, header_delimiter_end)
    THEN [err |-> Error("FormatError", "Error decoding header", 0), header_size |-> 0]
    ELSE IF HeaderSize(b, header_delimiter_end - 2) <= 0
    THEN [err |-> Error("FormatError", "Error decoding header", 0), header_size |-> 0]
    ELSE [err |-> NoError, header_size |-> HeaderSize(b, header_delimiter_end - 2)]

\* the whole function on a list of chunks, from the n-th on:
\* [err, header_size, chunk_size, header_delimiter_end, buff, pulled]
RECURSIVE FindLoop(_, _, _, _)
FindResult(c, cs, e, b, n) ==
    [err |-> c.err, header_size |-> c.header_size, chunk_size |-> cs,
     header_delimiter_end |-> e, buff |-> b, pulled |-> n]
FindStep(chunks, n, b, cs, e) ==
    IF e > -1 THEN FindResult(CheckDelimiter(b, e), cs, e, b, n)
    ELSE FindLoop(chunks, n + 1, b, cs)
FindAppend(chunks, n, b, chunk, cs) ==
    FindStep(chunks, n, b, cs, Find(b, EOT, SearchStart(b, chunk)))
FindLoop(chunks, n, b, cs) ==
    IF n > Len(chunks)
    THEN [err |-> Error("FormatError", "Header not found", 0), header_size |-> 0,
          chunk_size |-> cs, header_delimiter_end |-> -1, buff |-> b,
          pulled |-> n - 1]
    ELSE FindAppend(chunks, n, b \o chunks[n], chunks[n],
                    NominalChunkSize(cs, chunks[n]))
find_isyntax_header(chunks) == FindLoop(chunks, 1, <<>>, 0)


\* only the full slices, the shorter last one dropped
BuffChunks_FullOnly(b, cs) ==
    [k \in 1..(Len(b) \div cs) |-> Slice(b, (k - 1) * cs, k * cs)]

\* ------------------------------------------------------- deidentify_isyntax
\* buff[i : i + chunk_size] for i in range(0, len(buff), chunk_size)
BuffChunks(b, cs) ==
    [k \in 1..((Len(b) + cs - 1) \div cs) |-> Slice(b, (k - 1) * cs, k * cs)]

\* what the returned chain yields before it turns to slide_it
BuffItems(b, cs, chunked) == IF chunked THEN BuffChunks(b, cs) ELSE <<b>>


\* the buffer replaced by the header, the bytes buffered after it lost
WriteHeader_DropsRest(b, hs, deid) == deid

\* header[:] = header_deid, on the buffer that header is a view of
WriteHeader(b, hs, deid) == deid \o SubSeq(b, hs + 1, Len(b))

\* the chunks the returned iterator yields in all, [err, chunks]
Chained(chunks, chunked, found, deid) ==
    IF deid.err # NoError THEN [err |-> deid.err, chunks |-> <<>>]
    ELSE [err |-> NoError,
          chunks |-> BuffItems(WriteHeader(found.buff, found.header_size,
                                           deid.header_deid),
                               found.chunk_size, chunked)
                     \o SubSeq(chunks, found.pulled + 1, Len(chunks))]
Deidentified(chunks, chunked, found) ==
    IF found.err # NoError THEN [err |-> found.err, chunks |-> <<>>]
    ELSE Chained(chunks, chunked, found,
                 deidentify_isyntax_header(Slice(found.buff, 0, found.header_size)))
deidentify_isyntax(chunks, chunked) ==
    Deidentified(chunks, chunked, find_isyntax_header(chunks))

\* ------------------------------------------------------------------ inputs
\* the chunk size of the mock header iterators of the tests
BufferSize == 16

\* _make_iter(b, chunk_size)
MakeIter(b, n) == [k \in 1..((Len(b) + n - 1) \div n) |-> Slice(b, (k - 1) * n, k * n)]

\* every splitting of b into non-empty chunks: one per set of cut points
Pieces(b, cuts) ==
    LET ends == Ascending(cuts \cup {Len(b)})
    IN [k \in DOMAIN ends |->
          SubSeq(b, (IF k = 1 THEN 0 ELSE ends[k - 1]) + 1, ends[k])]
Splittings(b) ==
    IF b = <<>> THEN {<<>>}
    ELSE {Pieces(b, cuts) : cuts \in SUBSET (1..(Len(b) - 1))}

Mode(caller_, chunked, ret) ==
    [caller |-> caller_, chunk_header |-> chunked, ret_original_header |-> ret]
Modes == {Mode("api", c, r) : c \in BOOLEAN, r \in BOOLEAN}
         \cup {Mode("inplace", FALSE, FALSE), Mode("output", TRUE, FALSE)}

\* short byte strings over the bytes the scanner tells apart, in every chunking
RawBytes == {GT, CR, LF, EOT}
RawStrings == UNION {[1..n -> RawBytes] : n \in 0..MaxRaw}
\* headers shaped like the mock headers of the tests
RECURSIVE SeqsUpTo(_, _)
SeqsUpTo(S, n) ==
    IF n = 0 THEN {<<>>}
    ELSE LET shorter == SeqsUpTo(S, n - 1)
         IN shorter \cup {Append(q, x) : q \in {r \in shorter : Len(r) = n - 1}, x \in S}

DefaultParams ==
    [root |-> "ok", nBar |-> 1, nCont |-> 1, nArr |-> 1, nArrRest |-> 1,
     entries |-> <<LABELIMAGE>>, group |-> "Group=0x301D", fold |-> "none",
     btext |-> <<"B">>,
     decl |-> TRUE, empty |-> "short", eol |-> "none", gt |-> 0,
     closed |-> TRUE, gap |-> <<LF>>, tail |-> <<>>, plan |-> "buffer",
     mode |-> Mode("api", TRUE, FALSE)]

Choices ==
    [root |-> {"ok", "badTag", "badType"}, nBar |-> 0..2, nCont |-> 0..2,
     nArr |-> 0..2, nArrRest |-> 0..2, entries |-> SeqsUpTo({LABELIMAGE, "WSI"}, MaxEntries),
     group |-> {"Group=0x301D", "Group=0x301d"}, btext |-> {<<"B">>, <<>>},
     decl |-> BOOLEAN, empty |-> {"short", "sp", "long"},
     eol |-> {"none", "LF", "CRLF"}, gt |-> {0, MaxGt - 1, MaxGt},
     closed |-> BOOLEAN, gap |-> {<<LF>>, <<>>, <<EOT>>},
     tail |-> SeqsUpTo({"x", EOT}, MaxTail),
     plan |-> {"buffer", "small", "splitCR", "splitLF", "uneven"}, mode |-> Modes]

\* the fields of a parameter record, in the order they are varied
Fields == <<"root", "nBar", "nCont", "nArr", "nArrRest", "entries", "group", "btext", "decl",
            "empty", "eol", "gt", "closed", "gap", "tail", "plan", "mode">>

\* the parameter records that depart from q in at most k of the fields from
\* the i-th on
RECURSIVE WithinFrom(_, _, _)
WithinFrom(q, k, i) ==
    IF k = 0 \/ i > Len(Fields) THEN {q}
    ELSE WithinFrom(q, k, i + 1) \cup
         UNION {WithinFrom([q EXCEPT ![Fields[i]] = v], k - 1, i + 1) :
                   v \in Choices[Fields[i]] \ {q[Fields[i]]}}

\* the parameter records that depart from the default in at most k places
Within(k) == WithinFrom(DefaultParams, k, 1)

\* the identifiers a producer may write in another letter case, each named
\* by the element and the attribute it belongs to
Folds ==
    [barName |-> "Name=pim_dp_ufs_barcode", barElement |-> "Element=0X1002",
     barPMSVR |-> "PMSVR=istring", contName |-> "Name=pim_dp_scanned_images",
     contElement |-> "Element=0X1003", contPMSVR |-> "PMSVR=idataobjectarray",
     typeName |-> "Name=pim_dp_image_type", typeElement |-> "Element=0X1004",
     typePMSVR |-> "PMSVR=istring", entryType |-> "ObjectType=dpscannedimage",
     barGroup |-> "Group=0X301D", contGroup |-> "Group=0X301D",
     typeGroup |-> "Group=0X301D"]

\* the identifier u as the producer wrote it at the place `where`
Ident(p, where, u) == IF p.fold = where THEN Folds[where] ELSE u

\* the document the producer wrote: p.nBar barcodes, then p.nCont images
\* containers, the first with p.nArr arrays and the others with p.nArrRest
MkDoc(p) ==
    LET ws == IF p.eol = "none" THEN <<>> ELSE <<LF>>
        bar == Node("Attribute",
                    <<Ident(p, "barName", "Name=PIM_DP_UFS_BARCODE"),
                      Ident(p, "barGroup", p.group),
                      Ident(p, "barElement", "Element=0x1002"),
                      Ident(p, "barPMSVR", "PMSVR=IString")>>, p.btext, <<>>, ws)
        typ(k) == Node("Attribute",
                       <<Ident(p, "typeName", "Name=PIM_DP_IMAGE_TYPE"),
                         Ident(p, "typeGroup", p.group),
                         Ident(p, "typeElement", "Element=0x1004"),
                         Ident(p, "typePMSVR", "PMSVR=IString")>>, <<k>>, <<>>, ws)
        img(k) == Node("DataObject",
                       <<Ident(p, "entryType", "ObjectType=DPScannedImage")>>, ws,
                       <<typ(k)>>, ws)
        arr == Node("Array", <<>>, ws,
                    [i \in DOMAIN p.entries |-> img(p.entries[i])], ws)
        cont(n) == Node("Attribute",
                        <<Ident(p, "contName", "Name=PIM_DP_SCANNED_IMAGES"),
                          Ident(p, "contGroup", p.group),
                          Ident(p, "contElement", "Element=0x1003"),
                          Ident(p, "contPMSVR", "PMSVR=IDataObjectArray")>>,
                        ws, Repeat(arr, n), ws)
        conts == IF p.nCont = 0 THEN <<>>
                 ELSE <<cont(p.nArr)>> \o Repeat(cont(p.nArrRest), p.nCont - 1)
        kids == Repeat(bar, p.nBar) \o conts
        gts == Repeat(GT, p.gt)
    IN Node(IF p.root = "badTag" THEN "Array" ELSE "DataObject",
            <<IF p.root = "badType" THEN "ObjectType=DPScannedImage"
              ELSE "ObjectType=DPUfsImport">>,
            IF kids = <<>> THEN ws \o gts ELSE ws,
            IF kids = <<>> THEN kids
            ELSE [kids EXCEPT ![Len(kids)].tail = @ \o gts],
            <<>>)

\* the bytes the producer wrote for it
RECURSIVE WriteText(_, _)
WriteText(text, eol) ==
    IF text = <<>> THEN <<>>
    ELSE (IF Head(text) = LF /\ eol = "CRLF" THEN <<CR, LF>> ELSE <<Head(text)>>)
         \o WriteText(Tail(text), eol)

RECURSIVE WriteNode(_, _), WriteNodes(_, _)
WriteNode(n, p) ==
    (IF n.text = <<>> /\ n.kids = <<>>
     THEN <<"<", n.name>> \o n.attrs
          \o (CASE p.empty = "short" -> <<"/", GT>>
                [] p.empty = "sp" -> <<"sp", "/", GT>>
                [] OTHER -> <<GT, "<", "/", n.name, GT>>)
     ELSE <<"<", n.name>> \o n.attrs \o <<GT>> \o WriteText(n.text, p.eol)
          \o WriteNodes(n.kids, p) \o <<"<", "/", n.name, GT>>)
    \o WriteText(n.tail, p.eol)
WriteNodes(kids, p) ==
    IF kids = <<>> THEN <<>> ELSE WriteNode(Head(kids), p) \o WriteNodes(Tail(kids), p)

MkHeader(p) ==
    LET body == WriteNode(MkDoc(p), p)
    IN (IF p.decl
        THEN <<"<", "?", "xml", "version=1.0", "encoding=UTF-8", "?", GT, LF>>
        ELSE <<>>)
       \o (IF p.closed THEN body ELSE SubSeq(body, 1, Len(body) - 4))

MkStream(p) == MkHeader(p) \o p.gap \o <<CR, LF, EOT>> \o p.tail

PlanSize(p) ==
    LET e == Len(MkHeader(p)) + Len(p.gap) + 2
    IN CASE p.plan = "buffer" -> BufferSize
         [] p.plan = "small" -> SmallChunk
         [] p.plan = "splitCR" -> e - 1
         [] OTHER -> e

\* the chunks of the source: the stream cut by _make_iter, or, for a source
\* that breaks the fixed size, a short first chunk and the rest cut by it
Chunks(p) ==
    IF p.plan = "uneven"
    THEN <<Slice(MkStream(p), 0, SmallChunk)>>
         \o MakeIter(SubSeq(MkStream(p), SmallChunk + 1, Len(MkStream(p))), BufferSize)
    ELSE MakeIter(MkStream(p), PlanSize(p))

\* ------------------------------------------------------------------- state
VARIABLES
    upstream,             \* the chunks the source holds, in order
    slide_it,             \* how many of them have been pulled
    caller,               \* "api", or main() run with --inplace / --output-img
    chunk_header, ret_original_header,
    pc,
    buff, chunk_size, header_delimiter_end, header_size,
    original_header, header_deid,
    err,                  \* the exception raised, NoError while none
    ret_i,                \* how many items of the buffered part ret has yielded
    out,                  \* the chunks ret has yielded to its consumer
    f_in,                 \* the bytes of the input file of main()
    f_out_created, f_out, \* the output file of main()
    first                 \* what an earlier call gave, when its output is the source

vars == <<upstream, slide_it, caller, chunk_header, ret_original_header, pc,
          buff, chunk_size, header_delimiter_end, header_size, original_header,
          header_deid, err, ret_i, out, f_in, f_out_created, f_out, first>>

params == <<upstream, caller, chunk_header, ret_original_header, first>>
files == <<f_in, f_out_created, f_out>>
scan == <<buff, chunk_size, header_delimiter_end, header_size>>

\* no earlier call
NoFirst == [done |-> FALSE, header_size |-> 0, header_delimiter_end |-> -1,
            header_deid |-> <<>>]

\* the state when deidentify_isyntax is called on the source `chunks`
Start(chunks, mode) ==
    /\ first = NoFirst
    /\ upstream = chunks
    /\ caller = mode.caller
    /\ chunk_header = mode.chunk_header
    /\ ret_original_header = mode.ret_original_header
    /\ slide_it = 0
    /\ pc = "find"
    /\ buff = <<>>
    /\ chunk_size = 0
    /\ header_delimiter_end = -1
    /\ header_size = 0
    /\ original_header = <<>>
    /\ header_deid = <<>>
    /\ err = NoError
    /\ ret_i = 0
    /\ out = <<>>
    /\ f_in = IF mode.caller = "api" THEN <<>> ELSE Flatten(chunks)
    /\ f_out_created = FALSE
    /\ f_out = <<>>

\* a short byte string in any chunking, as deidentify_isyntax(header_it), or
\* a header shaped like the mock headers of the tests, cut by _make_iter
Init ==
    \/ \E b \in RawStrings : \E chunks \in Splittings(b) :
          Start(chunks, Mode("api", TRUE, FALSE))
    \/ \E p \in Within(MaxDev) :
          Start(Chunks(p), p.mode)

Raise(e) == pc' = "raised" /\ err' = e

\* find_isyntax_header, one turn of the loop: next(slide_it) gives a chunk
FindPull ==
    /\ pc = "find"
    /\ slide_it < Len(upstream)
    /\ LET chunk == upstream[slide_it + 1]
           b == buff \o chunk
           e == Find(b, EOT, SearchStart(b, chunk))
       IN /\ slide_it' = slide_it + 1
          /\ chunk_size' = NominalChunkSize(chunk_size, chunk)
          /\ buff' = b
          /\ header_delimiter_end' = e
          /\ pc' = IF e > -1 THEN "delim" ELSE "find"
    /\ UNCHANGED <<params, files, header_size, original_header, header_deid, err,
                   ret_i, out>>


\* the end of the source taken for the end of the loop
FindExhausted_FallsThrough ==
    /\ pc = "find"
    /\ slide_it = Len(upstream)
    /\ pc' = "delim"
    /\ UNCHANGED <<params, files, scan, slide_it, original_header, header_deid,
                   err, ret_i, out>>

\* find_isyntax_header, one turn of the loop: next(slide_it) raises StopIteration
FindExhausted ==
    /\ pc = "find"
    /\ slide_it = Len(upstream)
    /\ Raise(Error("FormatError", "Header not found", 0))
    /\ UNCHANGED <<params, files, scan, slide_it, original_header, header_deid,
                   ret_i, out>>

\* find_isyntax_header after the loop
FindCheck ==
    /\ pc = "delim"
    /\ LET c == CheckDelimiter(buff, header_delimiter_end)
       IN IF c.err # NoError
          THEN Raise(c.err) /\ UNCHANGED header_size
          ELSE pc' = "capture" /\ header_size' = c.header_size /\ UNCHANGED err
    /\ UNCHANGED <<params, files, slide_it, buff, chunk_size, header_delimiter_end,
                   original_header, header_deid, ret_i, out>>

\* header = memoryview(buff)[:header_size]; original_header = bytes(header)
Capture ==
    /\ pc = "capture"
    /\ original_header' =
          IF ret_original_header THEN Slice(buff, 0, header_size) ELSE <<>>
    /\ pc' = "transform"
    /\ UNCHANGED <<params, files, scan, slide_it, header_deid, err, ret_i, out>>

\* header_deid = deidentify_isyntax_header(header)
Transform ==
    /\ pc = "transform"
    /\ LET r == deidentify_isyntax_header(Slice(buff, 0, header_size))
       IN IF r.err # NoError
          THEN Raise(r.err) /\ UNCHANGED header_deid
          ELSE pc' = "write" /\ header_deid' = r.header_deid /\ UNCHANGED err
    /\ UNCHANGED <<params, files, scan, slide_it, original_header, ret_i, out>>


\* the original header captured after the write instead of before it
WriteBack_CapturesAfter ==
    /\ pc = "write"
    /\ Len(header_deid) = header_size
    /\ pc' = "ret"
    /\ buff' = WriteHeader(buff, header_size, header_deid)
    /\ original_header' =
          IF ret_original_header THEN Slice(buff', 0, header_size) ELSE <<>>
    /\ UNCHANGED <<params, files, slide_it, chunk_size, header_delimiter_end,
                   header_size, header_deid, err, ret_i, out>>

\* header[:] = header_deid: a memoryview takes only bytes of its own length
WriteBack ==
    /\ pc = "write"
    /\ IF Len(header_deid) # header_size
       THEN Raise(Error("ValueError", "memoryview assignment", 0)) /\ UNCHANGED buff
       ELSE pc' = "ret" /\ buff' = WriteHeader(buff, header_size, header_deid)
            /\ UNCHANGED err
    /\ UNCHANGED <<params, files, slide_it, chunk_size, header_delimiter_end,
                   header_size, original_header, header_deid, ret_i, out>>

\* ret = itertools.chain(...); return ret
Return ==
    /\ pc = "ret"
    /\ pc' = "returned"
    /\ UNCHANGED <<params, files, scan, slide_it, original_header, header_deid,
                   err, ret_i, out>>


\* an upstream chunk fetched ahead while a buffered item is yielded
ChainNext_Prefetch ==
    LET items == BuffItems(buff, chunk_size, chunk_header)
    IN IF ret_i < Len(items)
       THEN [stop |-> FALSE, chunk |-> items[ret_i + 1], ret_i |-> ret_i + 1,
             slide_it |-> Min(slide_it + 1, Len(upstream))]
       ELSE IF slide_it < Len(upstream)
       THEN [stop |-> FALSE, chunk |-> upstream[slide_it + 1], ret_i |-> ret_i,
             slide_it |-> slide_it + 1]
       ELSE [stop |-> TRUE, chunk |-> <<>>, ret_i |-> ret_i, slide_it |-> slide_it]

\* next(ret): [stop, chunk, ret_i, slide_it]
ChainNext ==
    LET items == BuffItems(buff, chunk_size, chunk_header)
    IN IF ret_i < Len(items)
       THEN [stop |-> FALSE, chunk |-> items[ret_i + 1], ret_i |-> ret_i + 1,
             slide_it |-> slide_it]
       ELSE IF slide_it < Len(upstream)
       THEN [stop |-> FALSE, chunk |-> upstream[slide_it + 1], ret_i |-> ret_i,
             slide_it |-> slide_it + 1]
       ELSE [stop |-> TRUE, chunk |-> <<>>, ret_i |-> ret_i, slide_it |-> slide_it]

\* the caller of deidentify_isyntax pulls the next chunk of ret
NextChunk ==
    /\ caller = "api"
    /\ pc = "returned"
    /\ LET n == ChainNext
       IN /\ ret_i' = n.ret_i
          /\ slide_it' = n.slide_it
          /\ IF n.stop THEN pc' = "exhausted" /\ UNCHANGED out
             ELSE out' = Append(out, n.chunk) /\ UNCHANGED pc
    /\ UNCHANGED <<params, files, scan, original_header, header_deid, err>>

\* main, --inplace: xml_header = next(slide_it)
MainNext ==
    /\ caller = "inplace"
    /\ pc = "returned"
    /\ LET n == ChainNext
       IN /\ ret_i' = n.ret_i
          /\ slide_it' = n.slide_it
          /\ out' = Append(out, n.chunk)
          /\ pc' = "inplace_write"
    /\ UNCHANGED <<params, files, scan, original_header, header_deid, err>>

\* main, --inplace: f_in.seek(0); f_in.write(xml_header)
MainWrite ==
    /\ pc = "inplace_write"
    /\ f_in' = out[1] \o SubSeq(f_in, Len(out[1]) + 1, Len(f_in))
    /\ pc' = "closed"
    /\ UNCHANGED <<params, scan, slide_it, original_header, header_deid, err,
                   ret_i, out, f_out_created, f_out>>


\* the output file opened before deidentify_isyntax is called
MainOpenOut_Early ==
    /\ caller = "output"
    /\ pc = "find"
    /\ ~f_out_created
    /\ f_out_created' = TRUE
    /\ UNCHANGED <<params, scan, slide_it, original_header, header_deid, err,
                   ret_i, out, f_in, f_out, pc>>

\* main, --output-img: open(args.output_img, "xb")
MainOpenOut ==
    /\ caller = "output"
    /\ pc = "returned"
    /\ f_out_created' = TRUE
    /\ pc' = "copy"
    /\ UNCHANGED <<params, scan, slide_it, original_header, header_deid, err,
                   ret_i, out, f_in, f_out>>

\* main, --output-img: for chunk in slide_it: f_out.write(chunk)
MainCopy ==
    /\ pc = "copy"
    /\ LET n == ChainNext
       IN /\ ret_i' = n.ret_i
          /\ slide_it' = n.slide_it
          /\ IF n.stop THEN pc' = "closed" /\ UNCHANGED <<out, f_out>>
             ELSE /\ out' = Append(out, n.chunk)
                  /\ f_out' = f_out \o n.chunk
                  /\ UNCHANGED pc
    /\ UNCHANGED <<params, scan, original_header, header_deid, err, f_in,
                   f_out_created>>

Next ==
    \/ FindPull
    \/ FindExhausted
    \/ FindCheck
    \/ Capture
    \/ Transform
    \/ WriteBack
    \/ Return
    \/ NextChunk
    \/ MainNext
    \/ MainWrite
    \/ MainOpenOut
    \/ MainCopy

Spec == Init /\ [][Next]_vars

\* the chunk sizes in which the output of a call is fed to the next call
RefeedSizes == {SmallChunk, BufferSize}

\* deidentify_isyntax called on the chunks that a first call yielded, as they
\* came or cut anew
Refeed ==
    /\ caller = "api"
    /\ pc = "exhausted"
    /\ ~first.done
    /\ \E chunks \in {out} \cup {MakeIter(Flatten(out), n) :
                                    n \in RefeedSizes \cup {Len(Flatten(out))}} :
          upstream' = chunks
    /\ first' = [done |-> TRUE, header_size |-> header_size,
                 header_delimiter_end |-> header_delimiter_end,
                 header_deid |-> header_deid]
    /\ slide_it' = 0
    /\ pc' = "find"
    /\ buff' = <<>>
    /\ chunk_size' = 0
    /\ header_delimiter_end' = -1
    /\ header_size' = 0
    /\ original_header' = <<>>
    /\ header_deid' = <<>>
    /\ ret_i' = 0
    /\ out' = <<>>
    /\ UNCHANGED <<caller, chunk_header, ret_original_header, err, files>>

NextTwice == Next \/ Refeed

SpecTwice == Init /\ [][NextTwice]_vars

\* the header of test_uppercase and test_lowercase with one identifier, or
\* none, written in another letter case
CaseParams ==
    {[DefaultParams EXCEPT !.group = g, !.fold = f, !.entries = e, !.mode = m] :
        g \in {"Group=0x301D", "Group=0x301d"},
        f \in {"none"} \cup DOMAIN Folds,
        e \in {<<LABELIMAGE>>, <<"WSI", LABELIMAGE>>},
        m \in Modes}

InitCase ==
    \/ \E b \in RawStrings : \E chunks \in Splittings(b) :
          Start(chunks, Mode("api", TRUE, FALSE))
    \/ \E p \in CaseParams :
          Start(Chunks(p), p.mode)

SpecCase == InitCase /\ [][Next]_vars

\* ------------------------------------------------------------------ claims
\* the bytes of the input stream
Input == Flatten(upstream)

\* deidentify_isyntax has returned its iterator
Returned == pc \in {"returned", "exhausted", "inplace_write", "copy", "closed"}

\* the header was written back into the buffer
Written == pc = "ret" \/ Returned

IsPrefix(a, b) == Len(a) <= Len(b) /\ a = SubSeq(b, 1, Len(a))

\* the deidentified header followed by the input from header_size on
Expected == header_deid \o SubSeq(Input, header_size + 1, Len(Input))

\* C1: when the transform succeeds, the bytes it returns are exactly
\* header_size long, and after they are written back the buffer has the
\* length it had and holds the input's bytes at every offset after the header.
C1_SizeInvariant ==
    /\ pc = "write" => Len(header_deid) = header_size
    /\ Written =>
          /\ Slice(buff, 0, header_size) = header_deid
          /\ Len(header_deid) = header_size
          /\ Len(buff) <= Len(Input)
          /\ SubSeq(buff, header_size + 1, Len(buff))
                = SubSeq(Input, header_size + 1, Len(buff))

\* C1 witness: a header was written back with newline padding at its end.
C1_Witness ==
    /\ pc = "ret"
    /\ header_size > 0
    /\ buff[header_size] = LF
    /\ Slice(buff, 0, header_size) # SubSeq(Input, 1, header_size)

\* C2: in either chunking mode the chunks yielded so far concatenate to a
\* prefix of deidentified header ++ input[header_size:], and to all of it once
\* the iterator is exhausted; the files main() writes hold the same bytes.
C2_RestUntouched ==
    /\ Returned => IsPrefix(Flatten(out), Expected)
    /\ pc = "exhausted" => Flatten(out) = Expected
    /\ (pc = "closed" /\ caller = "output") => f_out = Expected
    /\ (pc = "closed" /\ caller = "inplace") => f_in = Expected

\* C2 witness: the iterator is exhausted after yielding bytes that lie between
\* the last '>' and the terminator and a later upstream chunk.
C2_Witness ==
    /\ pc = "exhausted"
    /\ header_delimiter_end - 2 > header_size
    /\ Len(Flatten(out)) > Len(buff)

\* C3: an error is raised only while nothing has been yielded, written or
\* created, and never once the iterator was returned; main() writes to the
\* input file and creates the output file only after the return.
C3_ValidateBeforeEmit ==
    /\ err # NoError =>
          /\ pc = "raised"
          /\ out = <<>>
          /\ ~f_out_created /\ f_out = <<>>
          /\ caller # "api" => f_in = Input
    /\ Returned => err = NoError /\ Slice(buff, 0, header_size) = header_deid
    /\ (out # <<>> \/ f_out_created \/ (caller # "api" /\ f_in # Input)) => Returned

\* C3 witness: main() --output-img ended in LabelError.
C3_Witness ==
    /\ pc = "raised"
    /\ caller = "output"
    /\ err.kind = "LabelError"

\* what the scanner reported: its error, the header length, the index of 0x04
ScanDone == pc \notin {"find", "delim"}
ScanOutcome ==
    [err |-> IF header_size = 0 THEN err ELSE NoError,
     header_size |-> header_size,
     header_delimiter_end |-> header_delimiter_end]
OutcomeOf(r) ==
    [err |-> r.err, header_size |-> r.header_size,
     header_delimiter_end |-> r.header_delimiter_end]
WholeChunk(b) == IF b = <<>> THEN <<>> ELSE <<b>>

\* C4: under every chunking of the run the scanner reports what it reports on
\* the same bytes given as one chunk: the same header length and index of
\* 0x04, or the same error.
C4_ChunkingIndependence ==
    ScanDone => ScanOutcome = OutcomeOf(find_isyntax_header(WholeChunk(Input)))

\* C4 witness: a header was found whose terminator CR LF 0x04 is split
\* across two chunks.
C4_Witness ==
    /\ pc = "capture"
    /\ Len(buff) - Len(upstream[slide_it])
          \in {header_delimiter_end - 1, header_delimiter_end}

\* how many chunks the scanner pulls from this source
ScanPulled == find_isyntax_header(upstream).pulled

C6_OriginalHeader ==
    (ret_original_header /\ (pc = "transform" \/ pc = "write" \/ Written)) =>
       /\ original_header = SubSeq(Input, 1, header_size)
       /\ Returned =>
             IsPrefix(out, deidentify_isyntax(upstream, chunk_header).chunks)

\* C6 witness: the iterator and the original header were returned, and the
\* buffer no longer holds the original header.
C6_Witness ==
    /\ ret_original_header
    /\ pc = "returned"
    /\ original_header # <<>>
    /\ original_header # Slice(buff, 0, header_size)

\* the document of the header found, and of the header the transform returned
RootIn == Parse(Slice(buff, 0, header_size)).root
RootOut == Parse(header_deid).root

\* C7: when the transform has succeeded, the one element the barcode query
\* matches in the input document is at the same place in the output document,
\* with the same attributes, children and tail and with empty text, and is
\* again the one match; the root and its other children, the images container
\* apart, are as they were.
C7_BarcodeCleared ==
    pc = "write" =>
       /\ Parse(header_deid).ok
       /\ Len(BarcodeQuery(RootIn)) = 1
       /\ BarcodeQuery(RootOut) = BarcodeQuery(RootIn)
       /\ Len(RootOut.kids) = Len(RootIn.kids)
       /\ RootOut.name = RootIn.name /\ RootOut.attrs = RootIn.attrs
       /\ RootOut.text = RootIn.text
       /\ \A i \in DOMAIN RootIn.kids :
             IF i = BarcodeQuery(RootIn)[1]
             THEN RootOut.kids[i] = [RootIn.kids[i] EXCEPT !.text = <<>>]
             ELSE IF IsImagesAttribute(RootIn.kids[i])
             THEN /\ RootOut.kids[i].name = RootIn.kids[i].name
                  /\ RootOut.kids[i].attrs = RootIn.kids[i].attrs
                  /\ RootOut.kids[i].text = RootIn.kids[i].text
                  /\ RootOut.kids[i].tail = RootIn.kids[i].tail
             ELSE RootOut.kids[i] = RootIn.kids[i]

\* C7 witness: the transform succeeded on a header whose barcode had text.
C7_Witness ==
    /\ pc = "write"
    /\ RootIn.kids[BarcodeQuery(RootIn)[1]].text # <<>>

\* the entries of the images array of a document
ArrayOf(root) ==
    root.kids[ImagesQuery(root)[1][1]].kids[ImagesQuery(root)[1][2]]

FirstEOT == Find(Input, EOT, 0)

\* C9: on an input without 0x04 the call never gets past the scanner's loop;
\* it yields nothing, and when it raises, every chunk was pulled and the
\* error is FormatError 'Header not found'.
C9_HeaderNotFound ==
    FirstEOT = -1 =>
       /\ pc \in {"find", "raised"}
       /\ out = <<>>
       /\ header_delimiter_end = -1
       /\ pc = "raised" =>
             /\ err = Error("FormatError", "Header not found", 0)
             /\ slide_it = Len(upstream)
       /\ (pc = "find" /\ slide_it = Len(upstream)) => buff = Input

\* C9 witness: 'Header not found' was raised on a stream of several chunks
\* that holds CR LF.
C9_Witness ==
    /\ pc = "raised"
    /\ err.msg = "Header not found"
    /\ slide_it >= 2
    /\ \E i \in 1..(Len(buff) - 1) : buff[i] = CR /\ buff[i + 1] = LF

\* the first 0x04 of the input is not preceded by CR LF
BadTerminator ==
    /\ FirstEOT >= 0
    /\ \/ FirstEOT < 2
       \/ SubSeq(Input, FirstEOT - 1, FirstEOT) # <<CR, LF>>

\* C10: when the first 0x04 is not preceded by CR LF, the call ends in
\* FormatError 'Error decoding header' raised by the scanner on that 0x04: the
\* chunk that holds it is the last one pulled, and nothing is yielded.
C10_BadTerminator ==
    BadTerminator =>
       /\ pc \in {"find", "delim", "raised"}
       /\ out = <<>>
       /\ header_size = 0
       /\ pc # "find" =>
             /\ header_delimiter_end = FirstEOT
             /\ Len(buff) > FirstEOT
             /\ Len(buff) - Len(upstream[slide_it]) <= FirstEOT
       /\ pc = "raised" => err = Error("FormatError", "Error decoding header", 0)

\* C10 witness: 'Error decoding header' was raised on a first 0x04 that has
\* no CR LF before it while a well-formed CR LF 0x04 lies in a chunk not pulled.
C10_Witness ==
    /\ pc = "raised"
    /\ BadTerminator
    /\ slide_it < Len(upstream)
    /\ \E i \in (FirstEOT + 2)..(Len(Input) - 2) :
          SubSeq(Input, i, i + 2) = <<CR, LF, EOT>>

\* the transform has run on the header found: it returned or it raised
TransformRan == pc = "write" \/ (pc = "raised" /\ header_size > 0)

\* the header found parses and its root is the one required, so that the
\* barcode query is evaluated
QueriesReached ==
    /\ TransformRan
    /\ Parse(Slice(buff, 0, header_size)).ok
    /\ RootIn.name = "DataObject"
    /\ HasAttr(RootIn, "ObjectType=DPUfsImport")

\* how many elements of seq satisfy Test
CountOf(seq, Test(_)) == Cardinality({i \in DOMAIN seq : Test(seq[i])})

\* the call raised e and nothing came out of it: no chunk, no header, no
\* write to the buffer or to a file
FailedWith(e) ==
    /\ pc = "raised"
    /\ err = e
    /\ out = <<>>
    /\ header_deid = <<>>
    /\ buff = SubSeq(Input, 1, Len(buff))
    /\ ~f_out_created
    /\ caller # "api" => f_in = Input

\* the rule of C11 for the header found as parsed
ExactlyOneRule(parsed) ==
    (TransformRan /\ parsed.ok /\ parsed.root.name = "DataObject"
        /\ HasAttr(parsed.root, "ObjectType=DPUfsImport")) =>
       LET nb == CountOf(parsed.root.kids, IsBarcode)
           arrays == ImagesQuery(parsed.root)
       IN /\ nb = 0 => FailedWith(Error("BarcodeError", "Barcode not found", 0))
          /\ nb > 1 =>
                FailedWith(Error("BarcodeError",
                                 "Single barcode element expected, n found", nb))
          /\ (nb = 1 /\ Len(arrays) = 1) =>
                LET nl == CountOf(ArrayOf(parsed.root).kids, IsLabel)
                IN /\ nl = 0 => FailedWith(Error("LabelError", "Label not found", 0))
                   /\ nl > 1 =>
                         FailedWith(Error("LabelError",
                                          "Single label expected, n found", nl))
                   /\ nl = 1 => err.kind \notin {"BarcodeError", "LabelError"}

\* C11: when the barcode query is evaluated and matches no element the call
\* fails with BarcodeError 'Barcode not found', and when it matches n > 1 with
\* BarcodeError reporting n; when the label query is evaluated on the one
\* array and matches no entry the call fails with LabelError 'Label not
\* found', and when it matches n > 1 with LabelError reporting n; in each case
\* nothing is output.
C11_ExactlyOne == ExactlyOneRule(Parse(Slice(buff, 0, header_size)))

\* C11 witness: the call failed on an array with two label entries, reporting 2.
C11_Witness ==
    /\ pc = "raised"
    /\ err.kind = "LabelError"
    /\ err.count = 2
    /\ QueriesReached
    /\ CountOf(ArrayOf(RootIn).kids, IsLabel) = 2

\* C12: when the images query is evaluated, the call fails with ImagesError
\* unless exactly one child of the root is an images container, and when
\* several are, the error reports how many; with one container the call
\* fails with ImagesError unless it holds exactly one Array.
C12_ImagesContainer ==
    (QueriesReached /\ CountOf(RootIn.kids, IsBarcode) = 1) =>
       LET nc == CountOf(RootIn.kids, IsImagesAttribute)
       IN /\ nc = 0 => FailedWith(Error("ImagesError", "Images not found", 0))
          /\ nc > 1 =>
                FailedWith(Error("ImagesError",
                                 "Single images element expected, n found", nc))
          /\ nc = 1 =>
                (err.kind = "ImagesError" <=> Len(ImagesQuery(RootIn)) # 1)

\* each of the three queries has its one match in the document root
MatchedIn(root) ==
    /\ root.name = "DataObject"
    /\ HasAttr(root, "ObjectType=DPUfsImport")
    /\ CountOf(root.kids, IsBarcode) = 1
    /\ Len(ImagesQuery(root)) = 1
    /\ CountOf(ArrayOf(root).kids, IsLabel) = 1

\* the transform has run on a header that parses to `parsed`, in which each
\* query has its one match
AllMatchedIn(parsed) == TransformRan /\ parsed.ok /\ MatchedIn(parsed.root)
AllMatched == AllMatchedIn(Parse(Slice(buff, 0, header_size)))

\* the deidentified document as serialized: the declaration line and the body
SerializedOf(root) ==
    xml_declaration
    \o Serialize(RemoveLabel(ClearBarcode(root, BarcodeQuery(root)[1]),
                             ImagesQuery(root)[1], LabelQuery(ArrayOf(root))[1]))
Serialized == SerializedOf(RootIn)

SizeViolation ==
    Error("FormatError",
          "Deidentified header size must be lower than equal to the original header size",
          0)

\* the rule of C13 for the deidentified document ser as serialized
SizeRule(ser) ==
    IF Len(ser) > header_size
    THEN FailedWith(SizeViolation)
    ELSE /\ pc = "write"
         /\ err = NoError
         /\ Len(header_deid) = header_size
         /\ IsPrefix(ser, header_deid)
         /\ \A i \in (Len(ser) + 1)..Len(header_deid) : header_deid[i] = LF

SizeRuleOn(parsed) == AllMatchedIn(parsed) => SizeRule(SerializedOf(parsed.root))

\* C13: when the serialized deidentified document is longer than the header
\* found, the call fails with the size FormatError, the buffer is as it was
\* read and nothing is output; otherwise the header returned is the whole
\* document followed by newlines only, of the length of the header found; a
\* header of another length is never written back or emitted.
C13_SizeViolation ==
    /\ SizeRuleOn(Parse(Slice(buff, 0, header_size)))
    /\ err = SizeViolation => out = <<>> /\ buff = SubSeq(Input, 1, Len(buff))
    /\ Written => Len(header_deid) = header_size /\ Len(buff) <= Len(Input)

\* C13 witness: the size FormatError was raised on a document that the
\* escaping of '>' made longer than the header found.
C13_Witness ==
    /\ pc = "raised"
    /\ err = SizeViolation
    /\ AllMatched
    /\ Len(Serialized) > header_size

\* an identifier in the letter case the queries spell it in
Canon(u) ==
    CASE u \in {"Group=0x301d", "Group=0X301D"} -> "Group=0x301D"
      [] u = "Name=pim_dp_ufs_barcode" -> "Name=PIM_DP_UFS_BARCODE"
      [] u = "Name=pim_dp_scanned_images" -> "Name=PIM_DP_SCANNED_IMAGES"
      [] u = "Name=pim_dp_image_type" -> "Name=PIM_DP_IMAGE_TYPE"
      [] u = "Element=0X1002" -> "Element=0x1002"
      [] u = "Element=0X1003" -> "Element=0x1003"
      [] u = "Element=0X1004" -> "Element=0x1004"
      [] u = "PMSVR=istring" -> "PMSVR=IString"
      [] u = "PMSVR=idataobjectarray" -> "PMSVR=IDataObjectArray"
      [] u = "ObjectType=dpufsimport" -> "ObjectType=DPUfsImport"
      [] u = "ObjectType=dpscannedimage" -> "ObjectType=DPScannedImage"
      [] OTHER -> u

BarcodeIds == {"Name=PIM_DP_UFS_BARCODE", "Group=0x301D", "Element=0x1002",
               "PMSVR=IString"}
ContainerIds == {"Name=PIM_DP_SCANNED_IMAGES", "Group=0x301D", "Element=0x1003",
                 "PMSVR=IDataObjectArray"}
TypeIds == {"Name=PIM_DP_IMAGE_TYPE", "Group=0x301D", "Element=0x1004",
            "PMSVR=IString"}

\* n is an element `name` carrying the identifiers ids, letter case apart
Like(n, name, ids) ==
    n.name = name /\ \A u \in ids : \E i \in DOMAIN n.attrs : Canon(n.attrs[i]) = u

\* the identifiers of n are in the case of the queries, but for a group
\* written 0x301d
CaseOk(n) ==
    \A i \in DOMAIN n.attrs :
       n.attrs[i] = Canon(n.attrs[i]) \/ n.attrs[i] = "Group=0x301d"

IsTypeLike(n) == Like(n, "Attribute", TypeIds) /\ StringValue(n) = <<LABELIMAGE>>

\* the children of the root that are barcodes, letter case apart, and those
\* among them written in an accepted case; likewise the containers and, in
\* the array arr, the label entries
BarcodesLike == {i \in DOMAIN RootIn.kids : Like(RootIn.kids[i], "Attribute", BarcodeIds)}
BarcodesOk == {i \in BarcodesLike : CaseOk(RootIn.kids[i])}
ContainersLike ==
    {i \in DOMAIN RootIn.kids : Like(RootIn.kids[i], "Attribute", ContainerIds)}
ContainersOk == {i \in ContainersLike : CaseOk(RootIn.kids[i])}
LabelsLike(arr) ==
    {i \in DOMAIN arr.kids :
        /\ Like(arr.kids[i], "DataObject", {"ObjectType=DPScannedImage"})
        /\ \E j \in DOMAIN arr.kids[i].kids : IsTypeLike(arr.kids[i].kids[j])}
LabelsOk(arr) ==
    {i \in LabelsLike(arr) :
        /\ CaseOk(arr.kids[i])
        /\ \E j \in DOMAIN arr.kids[i].kids :
              IsTypeLike(arr.kids[i].kids[j]) /\ CaseOk(arr.kids[i].kids[j])}

\* the one array of the one container written in an accepted case
ArrayOk ==
    LET c == RootIn.kids[CHOOSE i \in ContainersOk : TRUE]
    IN c.kids[CHOOSE j \in DOMAIN c.kids : IsArray(c.kids[j])]

\* C14: an element matches its query when its identifiers are in the case of
\* the query, the group being written 0x301D or 0x301d, and does not match
\* with any other difference of letter case: when a query is evaluated and
\* no element is written in an accepted case, the call fails with the
\* not-found error of that query, and when each query has one such element
\* none of the three queries raises.
C14_CaseRule ==
    QueriesReached =>
       /\ \A i \in BarcodesLike : IsBarcode(RootIn.kids[i]) <=> i \in BarcodesOk
       /\ \A i \in ContainersLike :
             IsImagesAttribute(RootIn.kids[i]) <=> i \in ContainersOk
       /\ BarcodesOk = {} => FailedWith(Error("BarcodeError", "Barcode not found", 0))
       /\ (Cardinality(BarcodesOk) = 1 /\ ContainersOk = {}) =>
             FailedWith(Error("ImagesError", "Images not found", 0))
       /\ (/\ Cardinality(BarcodesOk) = 1
           /\ Cardinality(ContainersOk) = 1
           /\ Len(ImagesQuery(RootIn)) = 1) =>
             /\ \A i \in LabelsLike(ArrayOk) :
                   IsLabel(ArrayOk.kids[i]) <=> i \in LabelsOk(ArrayOk)
             /\ LabelsOk(ArrayOk) = {} =>
                   FailedWith(Error("LabelError", "Label not found", 0))
             /\ Cardinality(LabelsOk(ArrayOk)) = 1 =>
                   err.kind \notin {"BarcodeError", "ImagesError", "LabelError"}

\* C14 witness: the label query found nothing in an array that holds a label
\* entry written in another letter case.
C14_Witness ==
    /\ pc = "raised"
    /\ err = Error("LabelError", "Label not found", 0)
    /\ QueriesReached
    /\ Cardinality(ContainersOk) = 1
    /\ LabelsLike(ArrayOk) # {}

\* the first chunk from the k-th on whose end lies beyond the index e, acc
\* bytes lying before it; the last chunk when there is none
RECURSIVE HolderFrom(_, _, _, _)
HolderFrom(chunks, k, acc, e) ==
    IF k >= Len(chunks) THEN Len(chunks)
    ELSE IF acc + Len(chunks[k]) > e THEN k
    ELSE HolderFrom(chunks, k + 1, acc + Len(chunks[k]), e)

\* the upstream chunk that holds the first 0x04, the last chunk when none does
HolderOfFirstEOT ==
    IF FirstEOT = -1 THEN Len(upstream) ELSE HolderFrom(upstream, 1, 0, FirstEOT)

\* what holds of the pulls in every state, holder being the chunk that holds
\* the first 0x04: no chunk beyond it is fetched but to be handed out
LazyAt(holder) ==
    /\ slide_it <= holder + (Len(out) - ret_i)
    /\ pc = "find" => Find(buff, EOT, 0) = -1
    /\ pc \in {"delim", "capture", "transform", "write", "ret"} =>
          slide_it = holder /\ out = <<>>
    /\ Returned =>
          /\ slide_it - holder - (Len(out) - ret_i) = 0
          /\ Len(out) > ret_i =>
                ret_i = Len(BuffItems(buff, chunk_size, chunk_header))
LazyState == LazyAt(HolderOfFirstEOT)

\* what holds of every step that pulls: it pulls one chunk, either in the
\* scanner's loop or to hand that very chunk to the consumer
LazyStep ==
    slide_it' # slide_it =>
       /\ slide_it' = slide_it + 1
       /\ \/ pc = "find"
          \/ /\ pc \in {"returned", "copy"}
             /\ ret_i' = ret_i
             /\ out' = Append(out, upstream[slide_it'])

\* C15: the scanner pulls up to the chunk that holds the first 0x04 and no
\* chunk is pulled from there to the return; afterwards a chunk is pulled
\* only in a step that hands it to the consumer, once the buffered items are
\* all out, one pull per output chunk; no chunk is ever fetched ahead.
C15_Lazy == [](LazyState) /\ [][LazyStep]_vars

\* C15 witness: the buffered items and then a forwarded chunk were handed
\* out in chunked-output mode, the forwarded chunk pulled on that request.
C15_Witness ==
    /\ pc = "returned"
    /\ chunk_header
    /\ ret_i >= 2
    /\ Len(out) = ret_i + 1
    /\ slide_it = HolderOfFirstEOT + 1

\* the first 0x04, at index e of the bytes inp, is preceded by CR LF
TerminatorAt(inp, e) == e >= 2 /\ SubSeq(inp, e - 1, e) = <<CR, LF>>
GoodTerminator == TerminatorAt(Input, FirstEOT)

\* the 0-based indices of the '>' bytes of inp that lie before the CR
GtBefore(inp, e) == {i \in 0..(e - 3) : inp[i + 1] = GT}
GtBeforeCR == GtBefore(Input, FirstEOT)
Greatest(S) == CHOOSE i \in S : \A j \in S : j <= i

\* the rule of the header length, for the input inp with its first 0x04 at e
\* and the '>' bytes before the CR at the indices gts
HeaderLengthRule(inp, e, gts) ==
    IF gts = {}
    THEN /\ header_size = 0
         /\ FailedWith(Error("FormatError", "Error decoding header", 0))
    ELSE /\ header_delimiter_end = e
         /\ header_size = Greatest(gts) + 1
         /\ pc \in {"capture", "transform"} =>
               Slice(buff, 0, header_size) = SubSeq(inp, 1, Greatest(gts) + 1)
         /\ SubSeq(buff, header_size + 1, e + 1)
               = SubSeq(inp, Greatest(gts) + 2, e + 1)

\* C16: when the first 0x04 follows CR LF and the scanner is done, the header
\* length is one more than the index of the last '>' before the CR, the
\* header handed to the transform is the input up to that '>', and the bytes
\* from there to the terminator stay as they are; without a '>' before the
\* CR the call fails with FormatError 'Error decoding header'.
C16_HeaderLength ==
    (ScanDone /\ GoodTerminator) =>
       HeaderLengthRule(Input, FirstEOT, GtBeforeCR)

\* C16 witness: a header was found that ends before bytes lying between its
\* last '>' and the CR, with other '>' bytes before the last.
C16_Witness ==
    /\ pc = "transform"
    /\ GoodTerminator
    /\ Cardinality(GtBeforeCR) >= 2
    /\ header_size < FirstEOT - 2

\* the source precondition: no chunk empty, all but the last of one size
Uniform(chunks) ==
    \A k \in DOMAIN chunks :
       /\ Len(chunks[k]) > 0
       /\ k < Len(chunks) => Len(chunks[k]) = Len(chunks[1])

\* the items taken from the buffer are its consecutive slices of size cs
SlicesOf(b, cs, items) ==
    \A k \in DOMAIN items :
       /\ items[k] = SubSeq(b, (k - 1) * cs + 1, Min(k * cs, Len(b)))
       /\ Len(items[k]) > 0
       /\ k * cs < Len(b) => Len(items[k]) = cs

\* C17: the nominal chunk size is the length of the first chunk pulled; in
\* chunked-output mode the chunks yielded from the buffer are its consecutive
\* slices of that size, none empty and only the last possibly shorter, and
\* they cover the buffer before an upstream chunk is forwarded; on a source
\* of one fixed chunk size each output chunk has the length of the input
\* chunk of the same rank, and the output has as many chunks as the input.
C17_Cadence ==
    /\ slide_it >= 1 => chunk_size = Len(upstream[1])
    /\ (Returned /\ chunk_header) =>
          /\ SlicesOf(buff, chunk_size, SubSeq(out, 1, ret_i))
          /\ Len(out) > ret_i => ret_i * chunk_size >= Len(buff)
          /\ Uniform(upstream) =>
                /\ \A k \in DOMAIN out : Len(out[k]) = Len(upstream[k])
                /\ pc \in {"exhausted", "closed"} => Len(out) = Len(upstream)

\* C17 witness: on a source of one fixed size whose last chunk is shorter,
\* chunked-output mode yielded as many chunks as the source holds, the last
\* of them forwarded.
C17_Witness ==
    /\ pc = "exhausted"
    /\ chunk_header
    /\ Uniform(upstream)
    /\ Len(out) = Len(upstream)
    /\ Len(out) > ret_i
    /\ Len(out[Len(out)]) < chunk_size

\* C18: a call fed with the whole output of a successful call, in any
\* chunking, yields nothing and can only end in LabelError 'Label not
\* found': its scanner finds 0x04 where the first call found it and a header
\* that is the first call's header less its newline padding, and on that
\* header the root, barcode and images checks pass and the label query
\* matches nothing.
C18_NotIdempotent ==
    first.done =>
       /\ pc \in {"find", "delim", "capture", "transform", "raised"}
       /\ out = <<>>
       /\ ScanDone =>
             /\ header_delimiter_end = first.header_delimiter_end
             /\ 0 < header_size /\ header_size <= first.header_size
             /\ first.header_deid[header_size] = GT
             /\ \A i \in (header_size + 1)..first.header_size :
                   first.header_deid[i] = LF
       /\ pc = "raised" =>
             /\ FailedWith(Error("LabelError", "Label not found", 0))
             /\ QueriesReached
             /\ CountOf(RootIn.kids, IsBarcode) = 1
             /\ Len(ImagesQuery(RootIn)) = 1
             /\ CountOf(ArrayOf(RootIn).kids, IsLabel) = 0

\* C18 witness: the second call, on the output cut anew, failed with
\* LabelError on a header shorter than the first call's.
C18_Witness ==
    /\ first.done
    /\ pc = "raised"
    /\ err.kind = "LabelError"
    /\ header_size < first.header_size
    /\ Len(upstream) >= 2
    /\ Len(upstream[1]) = SmallChunk

====
